---- MODULE Spec2Model ----
(***************************************************************************)
(* The solving engine of src/sudoku.py as a state machine: Sudoku.solve    *)
(* with its propagation sweeps (__reduce_cells), the magic-square          *)
(* sub-solver (__brute_force_magic_square) and the general backtracking    *)
(* search (__brute_force).  The two recursive searches are run on an       *)
(* explicit stack of frames; one action is one loop iteration, call or     *)
(* return of the Python code.                                              *)
(***************************************************************************)
EXTENDS Integers, Sequences, FiniteSets, TLC

VARIABLES
    input,           \* the list of 81 integers handed to Sudoku(grid)
    special,         \* the argument of solve(special)
    rot,             \* the iteration order of the candidate sets in this run
    grid,            \* self.grid: grid[r][c] = [value, possib]
    unsolved_cells,  \* self.unsolved_cells: a list of cells <<r, c>>
    mid_square,      \* the list handed to __brute_force_magic_square
    pc,              \* position in solve(): see the actions
    it,              \* index of the list iterator of __reduce_cells' for loop
    reducing,        \* the local list `reducing` of __reduce_cells
    stack,           \* frames of the active recursive calls, innermost last
    mode,            \* "call" | "loop" | "ret": what the search does next
    ret,             \* last return: [val, entry] (entry: the state at the call)
    hist             \* history of the run, read by the properties only

vars == <<input, special, rot, grid, unsolved_cells, mid_square, pc, it,
          reducing, stack, mode, ret, hist>>

-----------------------------------------------------------------------------
(* Bounds of the model *)

\* Candidate sets are iterated starting at value rot + 1, rot \in 0..MaxRot.
MaxRot == 1

\* The generated inputs blank at most MaxWindow consecutive cells of a row,
MaxWindow == 3

\* or the first n <= MaxRows rows of the grid.
MaxRows == 4

-----------------------------------------------------------------------------
(* The board *)

Rows == 0 .. 8
Digits == 1 .. 9
Cells == Rows \X Rows

\* Row-major list of all cells, as the loops of __parse_grid visit them.
AllCells == [i \in 1 .. 81 |-> <<(i - 1) \div 9, (i - 1) % 9>>]

\* Cell.__init__: value, and every other number as a possibility.
Cell(v) == [value |-> v, possib |-> {d \in Digits : d # v}]

\* A plausible slip in __parse_grid: the running index i taken column-major.
parse_grid_transposed(list) ==
    [r \in Rows |-> [c \in Rows |-> Cell(list[c * 9 + r + 1])]]

\* Sudoku.__parse_grid: grid[r][c] is built from list element i = 9r + c.
parse_grid(list) ==
    [r \in Rows |-> [c \in Rows |-> Cell(list[r * 9 + c + 1])]]

\* Sudoku.grid_to_list: the values, row by row.
grid_to_list(g) == [i \in 1 .. 81 |-> g[AllCells[i][1]][AllCells[i][2]].value]

\* Cell.is_solved
is_solved(g, cell) == g[cell[1]][cell[2]].value # 0

\* Sudoku.__init__: the unsolved cells in row-major order.
init_unsolved(g) == SelectSeq(AllCells, LAMBDA cell : ~is_solved(g, cell))

\* Sudoku.__all_solved
all_solved(cells) == Len(cells) = 0

\* Cell.__eq__ on two cells (what list.remove compares with).
cell_eq(g, a, b) ==
    g[a[1]][a[2]].value # 0 /\ g[a[1]][a[2]].value = g[b[1]][b[2]].value

-----------------------------------------------------------------------------
(* Constraint groups *)

KnightOffsets ==
    {d \in {-2, -1, 1, 2} \X {-2, -1, 1, 2} :
        (IF d[1] < 0 THEN -d[1] ELSE d[1]) # (IF d[2] < 0 THEN -d[2] ELSE d[2])}

\* Sudoku.__special_constraining_values
special_constraining_values(g, target) ==
    LET r_pos == target[1]
        c_pos == target[2]
        knights == {g[r_pos + d[1]][c_pos + d[2]].value :
                      d \in {e \in KnightOffsets :
                               /\ 0 <= r_pos + e[1] /\ r_pos + e[1] <= 8
                               /\ 0 <= c_pos + e[2] /\ c_pos + e[2] <= 8
                               /\ g[r_pos + e[1]][c_pos + e[2]].value # 0}}
        main_diag == IF r_pos = c_pos
                     THEN {g[i][i].value : i \in {j \in Rows : g[j][j].value # 0}}
                     ELSE {}
        side_diag == IF r_pos + c_pos = 8
                     THEN {g[i][8 - i].value :
                             i \in {j \in Rows : g[j][8 - j].value # 0}}
                     ELSE {}
    IN  knights \cup main_diag \cup side_diag

\* A plausible slip in __constraining_values: the 3x3 square left out of the
\* union.
constraining_values_without_square(g, target, sp) ==
    LET r_pos == target[1]
        c_pos == target[2]
        row == {g[r_pos][c].value :
                  c \in {k \in Rows : k # c_pos /\ g[r_pos][k].value # 0}}
        column == {g[r][c_pos].value :
                     r \in {k \in Rows : k # r_pos /\ g[k][c_pos].value # 0}}
        group == row \cup column
    IN  IF sp THEN group \cup special_constraining_values(g, target) ELSE group

\* Sudoku.__constraining_values
constraining_values(g, target, sp) ==
    LET r_pos == target[1]
        c_pos == target[2]
        row == {g[r_pos][c].value :
                  c \in {k \in Rows : k # c_pos /\ g[r_pos][k].value # 0}}
        column == {g[r][c_pos].value :
                     r \in {k \in Rows : k # r_pos /\ g[k][c_pos].value # 0}}
        row_start == (r_pos \div 3) * 3
        col_start == (c_pos \div 3) * 3
        square == {g[p[1]][p[2]].value :
                     p \in {q \in (row_start .. row_start + 2)
                                    \X (col_start .. col_start + 2) :
                              /\ ~(q[1] = r_pos /\ q[2] = c_pos)
                              /\ g[q[1]][q[2]].value # 0}}
        group == row \cup column \cup square
    IN  IF sp THEN group \cup special_constraining_values(g, target) ELSE group

\* Sudoku.__check_cell_possib
check_cell_possib(g, target, possib_value, sp) ==
    possib_value \notin constraining_values(g, target, sp)

-----------------------------------------------------------------------------
(* Iteration order of a set *)

RECURSIVE SortedFrom(_, _, _)
\* The elements of set s met when counting n steps upwards from v, wrapping
\* from 9 to 1.
SortedFrom(s, v, n) ==
    IF n = 0 THEN <<>>
    ELSE (IF v \in s THEN <<v>> ELSE <<>>) \o SortedFrom(s, (v % 9) + 1, n - 1)

\* `for x in s` visits s in an unspecified order.  The orders modelled are the
\* rotations of the ascending order: k = 0 visits 1, 2, ..., 9.
Order(s, k) == SortedFrom(s, (k % 9) + 1, 9)

-----------------------------------------------------------------------------
(* Propagation *)

RECURSIVE reduce_loop(_, _, _)
\* The for loop of Cell.reduce_possibilities over the values of group in the
\* order given; cell is [value, possib].  raised: ConflictError was raised.
reduce_loop(cell, order, is_reduced) ==
    IF order = <<>>
    THEN [cell |-> cell, result |-> is_reduced, raised |-> FALSE]
    ELSE LET other_value == Head(order)
             possib1 == cell.possib \ {other_value}
             reduced1 == is_reduced \/ other_value \in cell.possib
         IN  IF cell.value = other_value
             THEN [cell |-> cell, result |-> is_reduced, raised |-> TRUE]
             ELSE IF Cardinality(possib1) = 1
             THEN [cell |-> [value |-> CHOOSE v \in possib1 : TRUE,
                             possib |-> {}],
                   result |-> reduced1, raised |-> FALSE]
             ELSE reduce_loop([cell EXCEPT !.possib = possib1],
                              Tail(order), reduced1)

\* Cell.reduce_possibilities
reduce_possibilities(cell, order) == reduce_loop(cell, order, FALSE)

\* Sudoku.__reduce_cell; k picks the iteration order of group.  A solved
\* target returns None, which any() counts as false.
reduce_cell(g, target, sp, k) ==
    IF ~is_solved(g, target)
    THEN reduce_possibilities(g[target[1]][target[2]],
                              Order(constraining_values(g, target, sp), k))
    ELSE [cell |-> g[target[1]][target[2]], result |-> FALSE, raised |-> FALSE]

\* list.remove(cell): drops the first element that is the cell or equals it.
list_remove(g, cells, cell) ==
    LET j == CHOOSE i \in 1 .. Len(cells) :
                 /\ cells[i] = cell \/ cell_eq(g, cells[i], cell)
                 /\ \A h \in 1 .. i - 1 :
                        ~(cells[h] = cell \/ cell_eq(g, cells[h], cell))
    IN  SubSeq(cells, 1, j - 1) \o SubSeq(cells, j + 1, Len(cells))

\* any(reducing)
any(list) == \E i \in 1 .. Len(list) : list[i]

-----------------------------------------------------------------------------
(* The central square *)

\* Sudoku.__get_mid_square, as the row-major list of its cells.
get_mid_square == SelectSeq(AllCells, LAMBDA cell : cell[1] \in 3 .. 5 /\ cell[2] \in 3 .. 5)

\* The test of one row, column or diagonal in __check_magic_square_state:
\* the values of its solved cells, and not (three of them and a sum # 15).
line_ok(g, line) ==
    LET values == SelectSeq([i \in 1 .. 3 |-> g[line[i][1]][line[i][2]].value],
                            LAMBDA v : v # 0)
    IN  ~(Len(values) = 3 /\ values[1] + values[2] + values[3] # 15)

\* Sudoku.__check_magic_square_state
check_magic_square_state(g) ==
    /\ \A row \in 0 .. 2 : line_ok(g, [i \in 1 .. 3 |-> <<3 + row, 2 + i>>])
    /\ \A col \in 0 .. 2 : line_ok(g, [i \in 1 .. 3 |-> <<2 + i, 3 + col>>])
    /\ line_ok(g, [i \in 1 .. 3 |-> <<2 + i, 2 + i>>])
    /\ line_ok(g, [i \in 1 .. 3 |-> <<2 + i, 6 - i>>])

\* Cell.set_value(value) with certainty left False, and `cell.value = 0`.
set_value(g, cell, v) == [g EXCEPT ![cell[1]][cell[2]].value = v]

-----------------------------------------------------------------------------
(* Inputs *)

\* The solved grid of the entry point (`solution`), a list of 81 values.
Solution ==
    <<8, 4, 3, 5, 6, 7, 2, 1, 9,
      2, 7, 5, 9, 1, 3, 8, 4, 6,
      6, 1, 9, 4, 2, 8, 3, 7, 5,
      3, 8, 4, 6, 7, 2, 9, 5, 1,
      7, 2, 6, 1, 5, 9, 4, 8, 3,
      9, 5, 1, 8, 3, 4, 6, 2, 7,
      5, 3, 7, 2, 8, 6, 1, 9, 4,
      4, 6, 2, 7, 9, 1, 5, 3, 8,
      1, 9, 8, 3, 4, 5, 7, 6, 2>>

\* list with the cells at the 1-based indices in blanks set to 0 (unsolved).
Blank(list, blanks) == [i \in 1 .. 81 |-> IF i \in blanks THEN 0 ELSE list[i]]

\* list with only the cells at the 1-based indices in keep given.
Givens(list, keep) == [i \in 1 .. 81 |-> IF i \in keep THEN list[i] ELSE 0]

\* list with element i replaced by v.
Put(list, i, v) == [list EXCEPT ![i] = v]

\* A full grid that is classic-valid: every value of Solution moved on by one.
Relabelled == [i \in 1 .. 81 |-> (Solution[i] % 9) + 1]

\* The empty grid.
AllZero == [i \in 1 .. 81 |-> 0]

\* Solution with w consecutive cells blanked, from the start of a row.
Windows ==
    {Blank(Solution, (9 * r + 1) .. (9 * r + w)) :
        r \in Rows, w \in 1 .. MaxWindow}

\* Solution with its first n rows blanked (n = 0: the solved grid).
Prefixes == {Blank(Solution, 1 .. (9 * n)) : n \in 0 .. MaxRows}

\* Givens that repeat in no row, column or box and have no completion: the
\* values of cells (0,0) and (0,1) exchanged, and the cells of columns 0
\* and 1 that held them, (7,0) and (3,1), blanked.
SwappedPair == Blank(Put(Put(Solution, 1, 4), 2, 8), {64, 29})

\* The value 8 twice in row 0, and every cell given.
RowDuplicateFull == Put(Solution, 2, 8)

\* The value 8 twice in row 0, and cell (4,4) blank.
RowDuplicate == Blank(Put(Solution, 2, 8), {41})

\* Puzzles with Solution as a completion.
PuzzleA ==
    Givens(Solution, {2, 6, 8, 10, 11, 13, 22, 23, 26, 27, 28, 29, 34, 35, 36,
                      37, 39, 48, 54, 56, 57, 58, 62, 63, 64, 81})
PuzzleB ==
    Givens(Solution, {6, 7, 11, 16, 21, 26, 30, 36, 44, 47, 54, 55, 57, 59, 66,
                      67, 68, 70, 73, 77})
PuzzleD ==
    Givens(Solution, {3, 4, 7, 9, 15, 19, 20, 27, 35, 39, 47, 49, 54, 63, 64,
                      65, 66, 70, 71, 72, 77, 79, 80})
PuzzleE == Blank(Solution, 1 .. 69)

ClassicInputs ==
    Windows \cup Prefixes
        \cup {AllZero, Relabelled, SwappedPair, RowDuplicateFull, RowDuplicate,
              PuzzleA}

SpecialInputs ==
    Windows
        \cup {Solution, Relabelled, RowDuplicate, PuzzleA, PuzzleB, PuzzleD,
              PuzzleE}

\* The calls modelled: Sudoku(input).solve(special).
Runs == (ClassicInputs \X {FALSE}) \cup (SpecialInputs \X {TRUE})

-----------------------------------------------------------------------------
(* solve() *)

\* What a call finds when it starts: the two lists and every cell.
Snapshot == [cells |-> unsolved_cells, mid |-> mid_square, grid |-> grid]

Init ==
    /\ \E run \in Runs : input = run[1] /\ special = run[2]
    /\ rot \in 0 .. MaxRot
    /\ grid = parse_grid(input)
    /\ unsolved_cells = init_unsolved(parse_grid(input))
    /\ mid_square = <<>>
    /\ pc = "reduce1"
    /\ it = -1
    /\ reducing = <<>>
    /\ stack = <<>>
    /\ mode = "none"
    /\ ret = [val |-> FALSE,
              entry |-> [cells |-> <<>>, mid |-> <<>>, grid |-> parse_grid(input)]]
    /\ hist = [sweep_start |-> <<>>, visited |-> {}, undone |-> FALSE]

\* Where solve() goes when __reduce_cells returns.
AfterReduce ==
    /\ pc' = IF pc = "reduce1" /\ special THEN "magic" ELSE "brute"
    /\ mode' = IF pc = "reduce1" /\ special THEN "enter" ELSE "call"
    /\ it' = -1

\* __reduce_cells: `while reducing:` with the __all_solved break, and the
\* start of a sweep (reducing = []).
ReduceCellsWhile ==
    /\ pc \in {"reduce1", "reduce2"}
    /\ it = -1
    /\ IF all_solved(unsolved_cells)
       THEN AfterReduce /\ UNCHANGED <<reducing, hist>>
       ELSE /\ it' = 0
            /\ reducing' = <<>>
            /\ hist' = [hist EXCEPT !.sweep_start = unsolved_cells,
                                    !.visited = {}]
            /\ UNCHANGED <<pc, mode>>
    /\ UNCHANGED <<input, special, rot, grid, unsolved_cells, mid_square,
                   stack, ret>>

\* __reduce_cells: one iteration of `for cell in self.unsolved_cells`.  The
\* list iterator holds an index; list.remove shifts the later elements.
ReduceCellsFor ==
    /\ pc \in {"reduce1", "reduce2"}
    /\ it >= 0
    /\ it < Len(unsolved_cells)
    /\ LET cell == unsolved_cells[it + 1]
           r == reduce_cell(grid, cell, special, rot)
           g1 == [grid EXCEPT ![cell[1]][cell[2]] = r.cell]
       IN    /\ grid' = g1
             /\ hist' = [hist EXCEPT !.visited = @ \cup {cell}]
             /\ IF r.raised
                THEN /\ pc' = "raised"
                     /\ UNCHANGED <<unsolved_cells, it, reducing>>
                ELSE /\ pc' = pc
                     /\ it' = it + 1
                     /\ reducing' = Append(reducing, r.result)
                     /\ unsolved_cells' =
                          IF is_solved(g1, cell)
                          THEN list_remove(g1, unsolved_cells, cell)
                          ELSE unsolved_cells
    /\ UNCHANGED <<input, special, rot, mid_square, stack, mode, ret>>

\* __reduce_cells: the for loop is exhausted; reducing = any(reducing).
ReduceCellsAny ==
    /\ pc \in {"reduce1", "reduce2"}
    /\ it >= Len(unsolved_cells)
    /\ IF any(reducing)
       THEN it' = -1 /\ UNCHANGED <<pc, mode>>
       ELSE AfterReduce
    /\ UNCHANGED <<input, special, rot, grid, unsolved_cells, mid_square,
                   reducing, stack, ret, hist>>

-----------------------------------------------------------------------------
(* __solve_magic_square and __brute_force_magic_square *)

Top == stack[Len(stack)]
Pop == SubSeq(stack, 1, Len(stack) - 1)
Frame(cell) ==
    [cell |-> cell,
     order |-> Order(grid[cell[1]][cell[2]].possib, rot),
     entry |-> Snapshot]

\* __solve_magic_square: the unsolved cells of the central square.
SolveMagicSquare ==
    /\ pc = "magic"
    /\ mode = "enter"
    /\ mid_square' = SelectSeq(get_mid_square, LAMBDA cell : ~is_solved(grid, cell))
    /\ mode' = "call"
    /\ UNCHANGED <<input, special, rot, grid, unsolved_cells, pc, it, reducing,
                   stack, ret, hist>>

\* A call: mid_square.pop(0), or True (IndexError) on the empty list.
MagicCall ==
    /\ pc = "magic"
    /\ mode = "call"
    /\ IF mid_square = <<>>
       THEN /\ ret' = [val |-> TRUE, entry |-> Snapshot]
            /\ mode' = "ret"
            /\ UNCHANGED <<mid_square, stack>>
       ELSE /\ stack' = Append(stack, Frame(Head(mid_square)))
            /\ mid_square' = Tail(mid_square)
            /\ mode' = "loop"
            /\ UNCHANGED ret
    /\ UNCHANGED <<input, special, rot, grid, unsolved_cells, pc, it, reducing,
                   hist>>

\* One iteration of `for value in cell.possib`: the state of the square is
\* checked before the value is set.
MagicTry ==
    /\ pc = "magic"
    /\ mode = "loop"
    /\ Top.order # <<>>
    /\ LET value == Head(Top.order)
       IN  IF /\ check_magic_square_state(grid)
              /\ check_cell_possib(grid, Top.cell, value, TRUE)
           THEN /\ grid' = set_value(grid, Top.cell, value)
                /\ mode' = "call"
           ELSE UNCHANGED <<grid, mode>>
    /\ stack' = [stack EXCEPT ![Len(stack)].order = Tail(@)]
    /\ UNCHANGED <<input, special, rot, unsolved_cells, mid_square, pc, it,
                   reducing, ret, hist>>

\* The values are exhausted: mid_square.insert(0, cell); return False.
MagicBacktrack ==
    /\ pc = "magic"
    /\ mode = "loop"
    /\ Top.order = <<>>
    /\ mid_square' = <<Top.cell>> \o mid_square
    /\ ret' = [val |-> FALSE, entry |-> Top.entry]
    /\ stack' = Pop
    /\ mode' = "ret"
    /\ UNCHANGED <<input, special, rot, grid, unsolved_cells, pc, it, reducing,
                   hist>>

\* The recursive call returns to its caller: return True, or undo the change
\* and go on with the next value.
MagicReturn ==
    /\ pc = "magic"
    /\ mode = "ret"
    /\ stack # <<>>
    /\ IF ret.val
       THEN /\ ret' = [val |-> TRUE, entry |-> Top.entry]
            /\ stack' = Pop
            /\ UNCHANGED <<grid, mode>>
       ELSE /\ grid' = set_value(grid, Top.cell, 0)
            /\ mode' = "loop"
            /\ UNCHANGED <<stack, ret>>
    /\ UNCHANGED <<input, special, rot, unsolved_cells, mid_square, pc, it,
                   reducing, hist>>

\* The outermost call has returned (its result is dropped): solve() goes on
\* with the second __reduce_cells.
MagicDone ==
    /\ pc = "magic"
    /\ mode = "ret"
    /\ stack = <<>>
    /\ pc' = "reduce2"
    /\ it' = -1
    /\ mode' = "none"
    /\ UNCHANGED <<input, special, rot, grid, unsolved_cells, mid_square,
                   reducing, stack, ret, hist>>

-----------------------------------------------------------------------------
(* __brute_force *)

\* A call: unsolved_cells.pop(0), or True (IndexError) on the empty list.
BruteForceCall ==
    /\ pc = "brute"
    /\ mode = "call"
    /\ IF unsolved_cells = <<>>
       THEN /\ ret' = [val |-> TRUE, entry |-> Snapshot]
            /\ mode' = "ret"
            /\ UNCHANGED <<unsolved_cells, stack>>
       ELSE /\ stack' = Append(stack, Frame(Head(unsolved_cells)))
            /\ unsolved_cells' = Tail(unsolved_cells)
            /\ mode' = "loop"
            /\ UNCHANGED ret
    /\ UNCHANGED <<input, special, rot, grid, mid_square, pc, it, reducing,
                   hist>>

\* One iteration of `for value in cell.possib`.
BruteForceTry ==
    /\ pc = "brute"
    /\ mode = "loop"
    /\ Top.order # <<>>
    /\ LET value == Head(Top.order)
       IN  IF check_cell_possib(grid, Top.cell, value, special)
           THEN /\ grid' = set_value(grid, Top.cell, value)
                /\ mode' = "call"
           ELSE UNCHANGED <<grid, mode>>
    /\ stack' = [stack EXCEPT ![Len(stack)].order = Tail(@)]
    /\ UNCHANGED <<input, special, rot, unsolved_cells, mid_square, pc, it,
                   reducing, ret, hist>>

\* The values are exhausted: unsolved_cells.insert(0, cell); return False.
BruteForceBacktrack ==
    /\ pc = "brute"
    /\ mode = "loop"
    /\ Top.order = <<>>
    /\ unsolved_cells' = <<Top.cell>> \o unsolved_cells
    /\ ret' = [val |-> FALSE, entry |-> Top.entry]
    /\ stack' = Pop
    /\ mode' = "ret"
    /\ UNCHANGED <<input, special, rot, grid, mid_square, pc, it, reducing,
                   hist>>

\* The recursive call returns to its caller: return True, or undo the change
\* (cell.value = 0) and go on with the next value.
BruteForceReturn ==
    /\ pc = "brute"
    /\ mode = "ret"
    /\ stack # <<>>
    /\ IF ret.val
       THEN /\ ret' = [val |-> TRUE, entry |-> Top.entry]
            /\ stack' = Pop
            /\ UNCHANGED <<grid, mode, hist>>
       ELSE /\ grid' = set_value(grid, Top.cell, 0)
            /\ mode' = "loop"
            /\ hist' = [hist EXCEPT !.undone = TRUE]
            /\ UNCHANGED <<stack, ret>>
    /\ UNCHANGED <<input, special, rot, unsolved_cells, mid_square, pc, it,
                   reducing>>

\* The outermost call has returned (its result is dropped): solve() returns.
SolveReturn ==
    /\ pc = "brute"
    /\ mode = "ret"
    /\ stack = <<>>
    /\ pc' = "done"
    /\ mode' = "none"
    /\ UNCHANGED <<input, special, rot, grid, unsolved_cells, mid_square, it,
                   reducing, stack, ret, hist>>

Next ==
    \/ ReduceCellsWhile
    \/ ReduceCellsFor
    \/ ReduceCellsAny
    \/ SolveMagicSquare
    \/ MagicCall
    \/ MagicTry
    \/ MagicBacktrack
    \/ MagicReturn
    \/ MagicDone
    \/ BruteForceCall
    \/ BruteForceTry
    \/ BruteForceBacktrack
    \/ BruteForceReturn
    \/ SolveReturn

Spec == Init /\ [][Next]_vars

-----------------------------------------------------------------------------
(* Vocabulary of the properties *)

\* The values of a grid and of a list of 81 integers, cell by cell.
ValuesOf(g) == [cell \in Cells |-> g[cell[1]][cell[2]].value]
ListValues(list) == [cell \in Cells |-> list[9 * cell[1] + cell[2] + 1]]

Full(v) == \A cell \in Cells : v[cell] # 0

SameRow(a, b) == a # b /\ a[1] = b[1]
SameColumn(a, b) == a # b /\ a[2] = b[2]
SameBox(a, b) ==
    a # b /\ a[1] \div 3 = b[1] \div 3 /\ a[2] \div 3 = b[2] \div 3
KnightApart(a, b) == <<b[1] - a[1], b[2] - a[2]>> \in KnightOffsets
SameDiagonal(a, b) ==
    a # b /\ ((a[1] = a[2] /\ b[1] = b[2]) \/ (a[1] + a[2] = 8 /\ b[1] + b[2] = 8))

\* The pairs of cells that may not hold the same value.
ClassicPeers ==
    {p \in Cells \X Cells :
        SameRow(p[1], p[2]) \/ SameColumn(p[1], p[2]) \/ SameBox(p[1], p[2])}
SpecialPeers ==
    {p \in Cells \X Cells :
        \/ SameRow(p[1], p[2]) \/ SameColumn(p[1], p[2]) \/ SameBox(p[1], p[2])
        \/ KnightApart(p[1], p[2]) \/ SameDiagonal(p[1], p[2])}

\* No two solved classic peers hold the same value.
NonRepeating(v) ==
    \A p \in ClassicPeers : v[p[1]] # 0 => v[p[1]] # v[p[2]]

\* No two solved peers of the special ruleset hold the same value.
NonRepeatingSpecial(v) ==
    \A p \in SpecialPeers : v[p[1]] # 0 => v[p[1]] # v[p[2]]

\* Two solved cells of one row hold the same value.
RowRepeats(v) ==
    \E a \in Cells : \E c \in Rows :
        c # a[2] /\ v[a] # 0 /\ v[a] = v[<<a[1], c>>]

\* Every row, column and box holds each of 1..9 exactly once.
ValidClassic(v) ==
    /\ \A r \in Rows : {v[<<r, c>>] : c \in Rows} = Digits
    /\ \A c \in Rows : {v[<<r, c>>] : r \in Rows} = Digits
    /\ \A br \in 0 .. 2 : \A bc \in 0 .. 2 :
          {v[<<3 * br + i, 3 * bc + j>>] : i \in 0 .. 2, j \in 0 .. 2} = Digits

\* The central box: its rows, its columns and both diagonals sum to 15.
MagicSquare(v) ==
    /\ \A r \in 3 .. 5 : v[<<r, 3>>] + v[<<r, 4>>] + v[<<r, 5>>] = 15
    /\ \A c \in 3 .. 5 : v[<<3, c>>] + v[<<4, c>>] + v[<<5, c>>] = 15
    /\ v[<<3, 3>>] + v[<<4, 4>>] + v[<<5, 5>>] = 15
    /\ v[<<3, 5>>] + v[<<4, 4>>] + v[<<5, 3>>] = 15

\* The whole special ruleset on a full grid.
ValidSpecial(v) ==
    /\ ValidClassic(v)
    /\ NonRepeatingSpecial(v)
    /\ MagicSquare(v)

\* list has a completion among the grids known to be valid.
Extends(full, list) == \A i \in 1 .. 81 : list[i] \in {0, full[i]}
CompletableClassic(list) == Extends(Solution, list) \/ Extends(Relabelled, list)
CompletableSpecial(list) == Extends(Solution, list)

\* The givens break no rule of the special ruleset: no two peers repeat a
\* value, and no complete line of the central box has a sum other than 15.
GivensRespectSpecial(list) ==
    /\ NonRepeatingSpecial(ListValues(list))
    /\ check_magic_square_state(parse_grid(list))

\* __reduce_cells has just returned.
ReduceCellsReturned ==
    \/ pc = "magic" /\ mode = "enter"
    \/ pc = "brute" /\ mode = "call" /\ stack = <<>>

\* solve() is about to enter the outermost __brute_force.
BruteForceEntry == pc = "brute" /\ mode = "call" /\ stack = <<>>

\* The outermost __brute_force_magic_square has just returned True.
MagicReturnedTrue == pc = "magic" /\ mode = "ret" /\ stack = <<>> /\ ret.val

\* No unsolved cell has a candidate held by a solved constraining peer.
Fixpoint(g, sp) ==
    \A cell \in Cells :
        g[cell[1]][cell[2]].value = 0 =>
            g[cell[1]][cell[2]].possib \cap constraining_values(g, cell, sp) = {}

\* The positions of cell in a list.
Occurrences(list, cell) == {i \in 1 .. Len(list) : list[i] = cell}

-----------------------------------------------------------------------------
(* The claims *)

\* C1: classic mode, givens that repeat in no row, column or box: whenever
\* solve finishes with all 81 cells non-zero, every row, column and box of the
\* final grid holds each of 1..9 exactly once.
C1_SolvedGridValid ==
    (pc = "done" /\ ~special)
        => LET v == ValuesOf(grid)
           IN  (Full(v) /\ NonRepeating(ListValues(input))) => ValidClassic(v)

\* C2: classic mode, an input with a valid completion: solve ends with all 81
\* cells in 1..9, every given kept, and every row, column and box holding each
\* of 1..9 exactly once.
C2_ClassicSolves ==
    (pc = "done" /\ ~special /\ CompletableClassic(input))
        => LET v == ValuesOf(grid)
           IN  /\ \A cell \in Cells : v[cell] \in Digits
               /\ \A cell \in Cells :
                     ListValues(input)[cell] # 0 => v[cell] = ListValues(input)[cell]
               /\ ValidClassic(v)

\* C2's case: the empty grid solved, after the search undid at least one value.
C2_Witness ==
    /\ pc = "done" /\ ~special /\ input = AllZero
    /\ hist.undone
    /\ Full(ValuesOf(grid))

\* C3: special mode, givens that break no rule: when solve finishes with all
\* 81 cells non-zero the central box is a magic square, and when the
\* magic-square search returns True the square passes
\* __check_magic_square_state.
C3_MagicSquareHolds ==
    /\ (pc = "done" /\ special)
          => LET v == ValuesOf(grid)
             IN  (Full(v) /\ GivensRespectSpecial(input)) => MagicSquare(v)
    /\ (MagicReturnedTrue /\ GivensRespectSpecial(input))
          => check_magic_square_state(grid)

\* C4: special mode, an input with a completion under the special ruleset:
\* solve ends with all 81 cells non-zero and a grid that satisfies the whole
\* special ruleset.
C4_SpecialSolves ==
    (pc = "done" /\ special /\ CompletableSpecial(input))
        => LET v == ValuesOf(grid) IN Full(v) /\ ValidSpecial(v)

\* C5: an input with the same value given twice in one row: solve raises
\* ConflictError during propagation and does not return normally.
C5_ConflictRaised ==
    pc = "done" => ~RowRepeats(ListValues(input))

\* C6: an input with the same value given twice in one row: solve never
\* leaves the board completely filled with a row that repeats a value.
C6_NoInvalidFullGrid ==
    (pc = "done" /\ RowRepeats(ListValues(input)))
        => LET v == ValuesOf(grid) IN ~(Full(v) /\ RowRepeats(v))

\* C7: an input of 81 values in 1..9 with every row, column and box valid:
\* solve raises nothing and grid_to_list() afterwards equals the input.
C7_Idempotent ==
    (pc \in {"done", "raised"} /\ ValidClassic(ListValues(input)))
        => pc = "done" /\ grid_to_list(grid) = input

\* C7's case: solve(special=True) has returned on the solved grid.
C7_Witness ==
    pc = "done" /\ special /\ input = Solution /\ ValidClassic(ListValues(input))

\* C8: when solve enters __brute_force, unsolved_cells holds every cell whose
\* value is 0 exactly once and no cell whose value is non-zero.
C8_FrontierIsUnsolved ==
    BruteForceEntry
        => \A cell \in Cells :
               Cardinality(Occurrences(unsolved_cells, cell))
                   = IF grid[cell[1]][cell[2]].value = 0 THEN 1 ELSE 0

\* C9: when a call of __brute_force returns False, unsolved_cells, every
\* value and every candidate set are as when the call began; when it returns
\* True, unsolved_cells is empty.
C9_BacktrackingUndoes ==
    (pc = "brute" /\ mode = "ret")
        => IF ret.val
           THEN unsolved_cells = <<>>
           ELSE unsolved_cells = ret.entry.cells /\ grid = ret.entry.grid

\* C10: every sweep of __reduce_cells reduces every cell that is in
\* unsolved_cells, and when __reduce_cells returns no unsolved cell has a
\* candidate held by a solved constraining peer.
C10_PropagationFixpoint ==
    /\ (pc \in {"reduce1", "reduce2"} /\ it >= 0 /\ it >= Len(unsolved_cells))
          => \A i \in 1 .. Len(hist.sweep_start) :
                 hist.sweep_start[i] \in hist.visited
    /\ ReduceCellsReturned => Fixpoint(grid, special)

====
